---- MODULE Spec2Model ----
(***************************************************************************)
(* Model of the document indexing and question answering pipeline of       *)
(* ai-doc-assistant: the index_document / ask_question handlers            *)
(* (app/routers/documents.py, app/routers/chat.py), the chunking,          *)
(* retrieval and answer services they call, and the rows they keep in the  *)
(* store (app/models.py).                                                  *)
(*                                                                         *)
(* Text is a sequence of one-character strings.  A handler is a sequence   *)
(* of steps, one per interaction with the store or an outside service;     *)
(* handlers of different requests interleave between steps, as FastAPI     *)
(* runs sync handlers on a thread pool, each with its own Session.         *)
(***************************************************************************)
EXTENDS Integers, Sequences, FiniteSets, TLC

\* ------------------------------------------------------------------ bounds
\* Requests started in one behaviour.
MaxOps == 3
\* Documents uploaded in one behaviour.
MaxDocs == 3
\* Outside failures (store, extraction, completion service) in one behaviour.
MaxFail == 1
\* Characters of a text given to chunk_text on its own.
MaxText == 7
\* max_tokens (from 1) and overlap_tokens (from 0) given to chunk_text on its own.
MaxTok == 1
\* Pages given to chunk_pages on its own.
MaxPages == 2
\* Stored chunks of the document keyword_search is called on, on its own.
MaxRows == 3
\* top_k given to keyword_search on its own.
MaxTopK == 2
\* Ranked chunks given to format_sources_for_llm on its own.
MaxRanked == 2
\* Pieces (labels and plain text) of an answer given to _parse_citations on its own.
MaxPieces == 3
\* Characters by which a source chunk given to _extract_snippet on its own
\* may exceed the snippet length of 200.
MaxOver == 2

\* ------------------------------------------------------- program constants
\* chunk_pages(pages_data, max_tokens=500, overlap_tokens=50)
IndexMaxTokens == 500
IndexOverlapTokens == 50
\* keyword_search(..., top_k=5)
AskTopK == 5
\* estimate_tokens: 1 token ~= 4 characters
CharsPerToken == 4
\* score += tf * 10
ScoreWeight == 10
\* _extract_snippet(..., max_length=200)
SnippetMax == 200
\* title=request.question[:100] + "..."
TitleMax == 100

\* ------------------------------------------------------------ text helpers
IsSpace(c) == c \in {" ", "\n"}

IsEnder(c) == c \in {".", "!", "?"}

IsWordChar(c) == ~IsSpace(c) /\ ~IsEnder(c) /\ c \notin {"[", "]", "(", ")"}

Lower(c) == IF c = "C" THEN "c" ELSE IF c = "D" THEN "d" ELSE c

lower(s) == [i \in 1..Len(s) |-> Lower(s[i])]

Max(a, b) == IF a >= b THEN a ELSE b

Min(a, b) == IF a <= b THEN a ELSE b

\* s[a..b] with Python's clipping (1-based, inclusive)
Slice(s, a, b) == IF a > b THEN <<>> ELSE SubSeq(s, Max(a, 1), Min(b, Len(s)))

RECURSIVE lstrip(_)
lstrip(s) == IF s # <<>> /\ IsSpace(Head(s)) THEN lstrip(Tail(s)) ELSE s

RECURSIVE rstrip(_)
rstrip(s) == IF s # <<>> /\ IsSpace(s[Len(s)]) THEN rstrip(SubSeq(s, 1, Len(s) - 1)) ELSE s

\* str.strip()
strip(s) == rstrip(lstrip(s))

\* ---------------------------------------------------------- ChunkingService
\* estimate_tokens: len(text) // 4
estimate_tokens(text) == Len(text) \div CharsPerToken

\* End (exclusive) of the whitespace run starting at position i of s.
RECURSIVE RunEnd(_, _)
RunEnd(s, i) == IF i <= Len(s) /\ IsSpace(s[i]) THEN RunEnd(s, i + 1) ELSE i

\* re.split(r'(?<=[.!?])\s+', text): the pieces between the whitespace runs
\* that directly follow a sentence ender.  i scans, from is the start of the
\* piece being read.
RECURSIVE SplitFrom(_, _, _)
SplitFrom(s, from, i) ==
    IF i > Len(s) THEN << Slice(s, from, Len(s)) >>
    ELSE IF i > 1 /\ IsEnder(s[i - 1]) /\ IsSpace(s[i])
         THEN << Slice(s, from, i - 1) >> \o SplitFrom(s, RunEnd(s, i), RunEnd(s, i))
         ELSE SplitFrom(s, from, i + 1)

split_sentences(text) == SplitFrom(text, 1, 1)

MkChunk(idx, cur) ==
    [chunk_index |-> idx, text |-> strip(cur), token_count |-> estimate_tokens(cur)]

\* The for loop of chunk_text over the sentences from position k on;
\* cur is current_chunk, idx is chunk_index, acc is chunks.
RECURSIVE ChunkLoop(_, _, _, _, _, _, _)
ChunkLoop(sents, k, cur, idx, acc, max_chars, overlap_chars) ==
    IF k > Len(sents)
    THEN IF strip(cur) # <<>> THEN Append(acc, MkChunk(idx, cur)) ELSE acc
    ELSE LET sentence == sents[k] IN
         IF Len(cur) + Len(sentence) > max_chars /\ cur # <<>>
         THEN LET next == IF overlap_chars > 0 /\ Len(cur) > overlap_chars
                          THEN Slice(cur, Len(cur) - overlap_chars + 1, Len(cur))
                                 \o <<" ">> \o sentence
                          ELSE sentence
              IN ChunkLoop(sents, k + 1, next, idx + 1, Append(acc, MkChunk(idx, cur)),
                           max_chars, overlap_chars)
         ELSE ChunkLoop(sents, k + 1, IF cur # <<>> THEN cur \o <<" ">> \o sentence ELSE sentence,
                        idx, acc, max_chars, overlap_chars)

chunk_text_NoLast(text, max_tokens, overlap_tokens) ==
    IF text = <<>> \/ strip(text) = <<>> THEN <<>>
    ELSE LET all == ChunkLoop(split_sentences(text), 1, <<>>, 0, <<>>,
                              max_tokens * CharsPerToken, overlap_tokens * CharsPerToken)
         IN IF Len(all) > 1 THEN SubSeq(all, 1, Len(all) - 1) ELSE all

chunk_text(text, max_tokens, overlap_tokens) ==
    IF text = <<>> \/ strip(text) = <<>> THEN <<>>
    ELSE ChunkLoop(split_sentences(text), 1, <<>>, 0, <<>>,
                   max_tokens * CharsPerToken, overlap_tokens * CharsPerToken)

TagPage_Running(page_number, page_chunks) ==
    [i \in 1..Len(page_chunks) |->
        [page_number |-> page_number, chunk_index |-> page_chunks[i].chunk_index + page_number - 1,
         text |-> page_chunks[i].text, token_count |-> page_chunks[i].token_count]]

TagPage(page_number, page_chunks) ==
    [i \in 1..Len(page_chunks) |->
        [page_number |-> page_number, chunk_index |-> page_chunks[i].chunk_index,
         text |-> page_chunks[i].text, token_count |-> page_chunks[i].token_count]]

RECURSIVE chunk_pages(_, _, _)
chunk_pages(pages, max_tokens, overlap_tokens) ==
    IF pages = <<>> THEN <<>>
    ELSE TagPage(Head(pages).page_number, chunk_text(Head(pages).text, max_tokens, overlap_tokens))
           \o chunk_pages(Tail(pages), max_tokens, overlap_tokens)

\* --------------------------------------------------------- RetrievalService
StopWords ==
    { <<"t", "h", "e">>, <<"a">>, <<"a", "n">>, <<"a", "n", "d">>, <<"o", "r">>,
      <<"b", "u", "t">>, <<"i", "n">>, <<"o", "n">>, <<"a", "t">>, <<"t", "o">>,
      <<"f", "o", "r">>, <<"o", "f">>, <<"w", "i", "t", "h">>, <<"b", "y">>,
      <<"f", "r", "o", "m">>, <<"a", "s">>, <<"i", "s">>, <<"w", "a", "s">>, <<"a", "r", "e">>,
      <<"w", "e", "r", "e">>, <<"b", "e", "e", "n">>, <<"b", "e">>, <<"h", "a", "v", "e">>,
      <<"h", "a", "s">>, <<"h", "a", "d">>, <<"d", "o">>, <<"d", "o", "e", "s">>,
      <<"d", "i", "d">>, <<"w", "i", "l", "l">>, <<"w", "o", "u", "l", "d">>,
      <<"c", "o", "u", "l", "d">>, <<"s", "h", "o", "u", "l", "d">>, <<"m", "a", "y">>,
      <<"m", "i", "g", "h", "t">>, <<"c", "a", "n">>, <<"t", "h", "i", "s">>,
      <<"t", "h", "a", "t">>, <<"t", "h", "e", "s", "e">>, <<"t", "h", "o", "s", "e">>,
      <<"w", "h", "a", "t">>, <<"w", "h", "i", "c", "h">>, <<"w", "h", "o">>,
      <<"w", "h", "e", "n">>, <<"w", "h", "e", "r", "e">>, <<"w", "h", "y">>,
      <<"h", "o", "w">> }

\* End (exclusive) of the run of word characters starting at position i of s.
RECURSIVE WordEnd(_, _)
WordEnd(s, i) == IF i <= Len(s) /\ IsWordChar(s[i]) THEN WordEnd(s, i + 1) ELSE i

\* re.findall(r'\b\w+\b', s): the maximal runs of word characters, in order.
RECURSIVE WordsFrom(_, _)
WordsFrom(s, i) ==
    IF i > Len(s) THEN <<>>
    ELSE IF IsWordChar(s[i])
         THEN << Slice(s, i, WordEnd(s, i) - 1) >> \o WordsFrom(s, WordEnd(s, i))
         ELSE WordsFrom(s, i + 1)

\* _extract_keywords: words that are no stop word and longer than 2.
extract_keywords(text) ==
    LET words == WordsFrom(lower(text), 1)
        keep(w) == w \notin StopWords /\ Len(w) > 2
    IN SelectSeq(words, keep)

StartsWith(s, i, pat) ==
    /\ i + Len(pat) - 1 <= Len(s)
    /\ \A j \in 1..Len(pat) : s[i + j - 1] = pat[j]

\* str.count(pat): non-overlapping occurrences, scanning from the left.
RECURSIVE CountFrom(_, _, _)
CountFrom(s, pat, i) ==
    IF i + Len(pat) - 1 > Len(s) THEN 0
    ELSE IF StartsWith(s, i, pat) THEN 1 + CountFrom(s, pat, i + Len(pat))
         ELSE CountFrom(s, pat, i + 1)

\* str.split(): the whitespace-separated tokens; only their number is used.
RECURSIVE NumTokens(_, _)
NumTokens(s, i) ==
    IF i > Len(s) THEN 0
    ELSE IF IsSpace(s[i]) THEN NumTokens(s, i + 1)
         ELSE LET e == CHOOSE j \in i + 1..Len(s) + 1 :
                         /\ (j = Len(s) + 1 \/ IsSpace(s[j]))
                         /\ \A k \in i..j - 1 : ~IsSpace(s[k])
              IN 1 + NumTokens(s, e)

RECURSIVE SumCounts(_, _)
SumCounts(query_keywords, chunk_text_lower) ==
    IF query_keywords = <<>> THEN 0
    ELSE CountFrom(chunk_text_lower, Head(query_keywords), 1)
           + SumCounts(Tail(query_keywords), chunk_text_lower)

\* _calculate_score: sum over the keywords of count / max(len(words), 1) * 10.
\* The score is kept as the exact fraction num / den.
calculate_score(query_keywords, chunk_text_lower) ==
    IF query_keywords = <<>> THEN [num |-> 0, den |-> 1]
    ELSE [num |-> ScoreWeight * SumCounts(query_keywords, chunk_text_lower),
          den |-> Max(NumTokens(chunk_text_lower, 1), 1)]

ScoreGreater(a, b) == a.num * b.den > b.num * a.den

\* Insertion before the elements of equal score: a descending sort that is
\* not stable.
RECURSIVE InsertDesc_Unstable(_, _)
InsertDesc_Unstable(sorted, x) ==
    IF sorted = <<>> THEN << x >>
    ELSE IF ~ScoreGreater(Head(sorted).score, x.score) THEN << x >> \o sorted
         ELSE << Head(sorted) >> \o InsertDesc_Unstable(Tail(sorted), x)

\* Insert x after every element whose score is not smaller (stable, descending).
RECURSIVE InsertDesc(_, _)
InsertDesc(sorted, x) ==
    IF sorted = <<>> THEN << x >>
    ELSE IF ScoreGreater(x.score, Head(sorted).score) THEN << x >> \o sorted
         ELSE << Head(sorted) >> \o InsertDesc(Tail(sorted), x)

\* list.sort(key=score, reverse=True): stable, non-increasing score.
RECURSIVE SortDesc(_)
SortDesc(seq) ==
    IF seq = <<>> THEN <<>>
    ELSE InsertDesc(SortDesc(SubSeq(seq, 1, Len(seq) - 1)), seq[Len(seq)])

\* keyword_search over the chunk rows as the store enumerated them.
keyword_search(query, rows, top_k) ==
    IF rows = <<>> THEN <<>>
    ELSE LET query_keywords == extract_keywords(lower(query))
             scored == [i \in 1..Len(rows) |->
                          [chunk_id |-> rows[i].id, page_number |-> rows[i].page_number,
                           text |-> rows[i].text,
                           score |-> calculate_score(query_keywords, lower(rows[i].text)),
                           token_count |-> rows[i].token_count]]
         IN Slice(SortDesc(scored), 1, top_k)

Digit == <<"0", "1", "2", "3", "4", "5", "6", "7", "8", "9">>

IsDigit(c) == \E i \in 1..10 : Digit[i] = c

DigitVal(c) == (CHOOSE i \in 1..10 : Digit[i] = c) - 1

\* str(n) for n >= 0
RECURSIVE IntStr(_)
IntStr(n) == IF n < 10 THEN << Digit[n + 1] >> ELSE IntStr(n \div 10) \o << Digit[(n % 10) + 1] >>

\* int(s) for a string of digits
RECURSIVE StrInt(_)
StrInt(s) ==
    IF s = <<>> THEN 0 ELSE 10 * StrInt(SubSeq(s, 1, Len(s) - 1)) + DigitVal(s[Len(s)])

\* f"[S{idx}] (Page {page_number})\n{text}\n\n"
SourceBlock(idx, chunk) ==
    <<"[", "S">> \o IntStr(idx) \o <<"]", " ", "(", "P", "a", "g", "e", " ">>
      \o IntStr(chunk.page_number) \o <<")", "\n">> \o chunk.text \o <<"\n", "\n">>

RECURSIVE SourceText(_, _)
SourceText(ranked, idx) ==
    IF idx > Len(ranked) THEN <<>>
    ELSE SourceBlock(idx, ranked[idx]) \o SourceText(ranked, idx + 1)

\* enumerate(chunks) without the start value 1: the map keyed from 0.
format_sources_for_llm_ZeroBased(ranked) ==
    [source_text |-> SourceText(ranked, 1),
     source_to_page |-> [idx \in 0..Len(ranked) - 1 |-> ranked[idx + 1].page_number]]

\* format_sources_for_llm: the labelled source text and the label -> page map.
format_sources_for_llm(ranked) ==
    [source_text |-> SourceText(ranked, 1),
     source_to_page |-> [idx \in 1..Len(ranked) |-> ranked[idx].page_number]]

\* ----------------------------------------------------------------- LLMService
\* End (exclusive) of the run of digits starting at position i of s.
RECURSIVE DigitsEnd(_, _)
DigitsEnd(s, i) == IF i <= Len(s) /\ IsDigit(s[i]) THEN DigitsEnd(s, i + 1) ELSE i

\* re.findall(r'\[S(\d+)\]', answer): the digit strings of the labels, in order.
RECURSIVE LabelsFrom(_, _)
LabelsFrom(s, i) ==
    IF i > Len(s) THEN <<>>
    ELSE LET e == DigitsEnd(s, i + 2) IN
         IF StartsWith(s, i, <<"[", "S">>) /\ e > i + 2 /\ e <= Len(s) /\ s[e] = "]"
         THEN << Slice(s, i + 2, e - 1) >> \o LabelsFrom(s, e + 1)
         ELSE LabelsFrom(s, i + 1)

\* "Remove duplicates while preserving order": of the matched strings.
RECURSIVE Unique(_, _)
Unique(matches, seen) ==
    IF matches = <<>> THEN <<>>
    ELSE IF Head(matches) \in seen THEN Unique(Tail(matches), seen)
         ELSE << Head(matches) >> \o Unique(Tail(matches), seen \cup {Head(matches)})

\* The least element of a non-empty set of numbers.
Least(S) == CHOOSE k \in S : \A j \in S : k <= j

\* Index of the first "\n" of s at or after i, or 0.
NextNewline(s, i) ==
    LET at == {k \in i..Len(s) : s[k] = "\n"} IN IF at = {} THEN 0 ELSE Least(at)

\* Last index of the lazy group (.+?) that starts at from: the first e >= from
\* that is the end of s or is followed by "\n[S".
GroupEnd(s, from) ==
    IF from >= Len(s) THEN from
    ELSE Least({e \in from..Len(s) : e = Len(s) \/ StartsWith(s, e + 1, <<"\n", "[", "S">>)})

\* re.search(rf'\[S{n}\][^\n]*\n(.+?)(?=\n\[S|\Z)', source_text, re.DOTALL):
\* group 1 of the leftmost match from position i on, or "no match".
SnippetMatch(s, header, i) ==
    LET q(k) == NextNewline(s, k + Len(header))
        starts == {k \in i..Len(s) : StartsWith(s, k, header) /\ q(k) # 0 /\ q(k) < Len(s)}
    IN IF starts = {} THEN [found |-> FALSE, text |-> <<>>]
       ELSE LET first == q(Least(starts)) + 1
            IN [found |-> TRUE, text |-> Slice(s, first, GroupEnd(s, first))]

NotFoundText == <<"S", "o", "u", "r", "c", "e", " ", "t", "e", "x", "t", " ", "n", "o", "t", " ",
                  "f", "o", "u", "n", "d">>

\* _extract_snippet
extract_snippet(source_text, source_num, max_length) ==
    LET m == SnippetMatch(source_text, <<"[", "S">> \o IntStr(source_num) \o <<"]">>, 1)
        full_text == strip(m.text)
    IN IF m.found
       THEN IF Len(full_text) > max_length
            THEN Slice(full_text, 1, max_length) \o <<".", ".", ".">>
            ELSE full_text
       ELSE NotFoundText

\* The citations built in the reverse of the order of the matches.
RECURSIVE CitationsOf_Reversed(_, _, _)
CitationsOf_Reversed(unique_matches, source_text, source_to_page) ==
    IF unique_matches = <<>> THEN <<>>
    ELSE LET source_num == StrInt(Head(unique_matches))
             rest == CitationsOf_Reversed(Tail(unique_matches), source_text, source_to_page)
         IN IF source_num \in DOMAIN source_to_page
            THEN rest \o << [page |-> source_to_page[source_num],
                             snippet |-> extract_snippet(source_text, source_num, SnippetMax),
                             source_label |-> <<"S">> \o IntStr(source_num)] >>
            ELSE rest

RECURSIVE CitationsOf(_, _, _)
CitationsOf(unique_matches, source_text, source_to_page) ==
    IF unique_matches = <<>> THEN <<>>
    ELSE LET source_num == StrInt(Head(unique_matches))
             rest == CitationsOf(Tail(unique_matches), source_text, source_to_page)
         IN IF source_num \in DOMAIN source_to_page
            THEN << [page |-> source_to_page[source_num],
                     snippet |-> extract_snippet(source_text, source_num, SnippetMax),
                     source_label |-> <<"S">> \o IntStr(source_num)] >> \o rest
            ELSE rest

\* _parse_citations
parse_citations(answer, source_text, source_to_page) ==
    CitationsOf(Unique(LabelsFrom(answer, 1), {}), source_text, source_to_page)

\* An exception: its class and its message; str(e) is the message.
Exc(type, msg) == [type |-> type, msg |-> msg]

str(e) == e.msg

\* answer_with_sources, given what the completion service did with the
\* prompt: its reply, or the exception it raised, which is wrapped into a
\* plain Exception carrying the text of the original.
answer_with_sources(source_text, source_to_page, reply) ==
    IF reply.ok
    THEN [ok |-> TRUE, answer |-> reply.text,
          citations |-> parse_citations(reply.text, source_text, source_to_page)]
    ELSE [ok |-> FALSE, e |-> Exc("Exception", <<"LLM API error">> \o str(reply.e))]

\* ------------------------------------------------------------------ inputs
\* Callers (firebase uids).  A caller has a User row once it has uploaded.
Users == {"u1", "u2"}

Slots == {"r1", "r2"}

DocIds == 1..MaxDocs

NULL == 0 - 1

\* Uploaded files by name: the page texts PyMuPDF reads from them.
Files == {"blank", "pets"}

FileText(f) ==
    IF f = "blank" THEN << <<>> >>
    ELSE << <<"C", "a", "t", " ", "s", "a", "t", ".", " ">>, <<"d", "o", "g">> >>

Questions == { <<"c", "a", "t", "?">>, <<"e", "m", "u">> }

\* request.conversation_id: absent, or an integer.
ConvIdInputs ==
    {[some |-> FALSE, id |-> 0]} \cup {[some |-> TRUE, id |-> i] : i \in 0..MaxOps - 2}

\* What the completion service does with a prompt: it replies with a text, or
\* raises an error of some kind whose message is the service's own.
Answers == { <<"[", "S", "1", "]", ".">>, <<"[", "S", "2", "]", "[", "S", "1", "]", "[", "S", "7", "]">> }

LLMKinds == {"rate_limited", "other"}

LLMMessages == {"quota", "overloaded"}

LLMReplies ==
    {[ok |-> TRUE, text |-> a] : a \in Answers}
      \cup {[ok |-> FALSE, kind |-> k, e |-> Exc("APIError", <<m>>)] : k \in LLMKinds, m \in LLMMessages}

\* ------------------------------------------------------------------- state
VARIABLES
    users,      \* uids that have a User row
    docs,       \* Document rows by id; NoDoc where there is none
    nextDoc,    \* documents.id sequence
    pages,      \* Page rows
    nextPage,   \* pages.id sequence
    chunks,     \* Chunk rows
    nextChunk,  \* chunks.id sequence
    convs,      \* Conversation rows
    nextConv,   \* conversations.id sequence
    msgs,       \* Message rows
    nextMsg,    \* messages.id sequence
    pc,         \* where each slot's handler stands
    loc,        \* each handler's local variables and its Session's state
    last,       \* the request that ended last: what it was, why it ended, its response
    ops,        \* requests started so far
    fails,      \* outside failures so far
    call        \* a service function called on its own: its arguments and its result

db == <<users, docs, nextDoc, pages, nextPage, chunks, nextChunk, convs, nextConv, msgs, nextMsg>>

vars == <<users, docs, nextDoc, pages, nextPage, chunks, nextChunk, convs, nextConv, msgs, nextMsg,
          pc, loc, last, ops, fails, call>>

NoDoc == [status |-> "none"]

Exists(d) == d \in DocIds /\ docs[d] # NoDoc

PagesOf(d) == {p \in pages : p.document_id = d}

ChunksOf(d) == {c \in chunks : c.document_id = d}

ConvsOf(d) == {c \in convs : c.document_id = d}

Idle == [op |-> "none"]

NoLast == [op |-> "none"]

NoCall == [fn |-> "none"]

\* A response: the status code and the body's text.
Response(code, detail) == [status |-> code, detail |-> detail]

\* The request of slot r ends: operation op of caller u on document d ended
\* for cause (history) with response resp to the caller.
Finish(r, op, u, d, cause, resp) ==
    /\ pc' = [pc EXCEPT ![r] = "idle"]
    /\ loc' = [loc EXCEPT ![r] = Idle]
    /\ last' = [op |-> op, user |-> u, doc |-> d, cause |-> cause, resp |-> resp]
    /\ UNCHANGED call

\* The handler of slot r goes on at step p with locals l.
Goto(r, p, l) ==
    /\ pc' = [pc EXCEPT ![r] = p]
    /\ loc' = [loc EXCEPT ![r] = l]
    /\ UNCHANGED <<last, call>>

\* A request starts on a free slot: the first free one, the slots being
\* interchangeable workers.
Start(r) ==
    /\ pc[r] = "idle"
    /\ \A o \in Slots : pc[o] = "idle" => r = "r1" \/ o # "r1"
    /\ ops < MaxOps
    /\ ops' = ops + 1

\* An outside failure (the store is unavailable, a file cannot be read, the
\* completion service fails) happens.
Fails == fails < MaxFail /\ fails' = fails + 1

Fresh ==
    /\ users = {}
    /\ docs = [d \in DocIds |-> NoDoc]
    /\ nextDoc = 1
    /\ pages = {}
    /\ nextPage = 1
    /\ chunks = {}
    /\ nextChunk = 1
    /\ convs = {}
    /\ nextConv = 1
    /\ msgs = {}
    /\ nextMsg = 1
    /\ pc = [r \in Slots |-> "idle"]
    /\ loc = [r \in Slots |-> Idle]
    /\ last = NoLast
    /\ ops = 0
    /\ fails = 0

Init == Fresh /\ call = NoCall

\* ------------------------------------------------------ documents router
\* upload_document: get or create the User row, then create the Document row.
UploadDocument(r, u, f) ==
    /\ Start(r)
    /\ nextDoc <= MaxDocs
    /\ users' = users \cup {u}
    /\ docs' = [docs EXCEPT ![nextDoc] =
                  [owner_id |-> u, file |-> f, status |-> "uploaded", page_count |-> NULL,
                   chunk_count |-> NULL, indexed_at |-> NULL]]
    /\ nextDoc' = nextDoc + 1
    /\ Finish(r, "upload", u, nextDoc, "created", Response(201, <<"uploaded">>))
    /\ UNCHANGED <<pages, nextPage, chunks, nextChunk, convs, nextConv, msgs, nextMsg, fails>>

Lookup_NoOwner(u, d) ==
    IF u \notin users THEN "User not found"
    ELSE IF ~Exists(d) THEN "Document not found"
    ELSE "ok"

\* The user and document lookups every handler starts with:
\* "ok", or the 404 the handler raises.
Lookup(u, d) ==
    IF u \notin users THEN "User not found"
    ELSE IF ~Exists(d) \/ docs[d].owner_id # u THEN "Document not found"
    ELSE "ok"

DeleteDocument_KeepRows(r, u, d) ==
    /\ Start(r)
    /\ IF Lookup(u, d) # "ok"
       THEN /\ Finish(r, "delete", u, d, "not_found", Response(404, <<Lookup(u, d)>>))
            /\ UNCHANGED <<db, fails>>
       ELSE /\ docs' = [docs EXCEPT ![d] = NoDoc]
            /\ Finish(r, "delete", u, d, "deleted", Response(204, <<>>))
            /\ UNCHANGED <<users, nextDoc, pages, nextPage, chunks, nextChunk, convs, nextConv,
                           msgs, nextMsg, fails>>

\* get_document: the lookups, then the Document row as it is stored.
GetDocument(r, u, d) ==
    /\ Start(r)
    /\ UNCHANGED <<db, fails>>
    /\ IF Lookup(u, d) # "ok"
       THEN Finish(r, "get", u, d, "not_found", Response(404, <<Lookup(u, d)>>))
       ELSE Finish(r, "get", u, d, "found", Response(200, docs[d]))

\* delete_document: the Document row goes, and by cascade its pages, chunks,
\* conversations and their messages.
DeleteDocument(r, u, d) ==
    /\ Start(r)
    /\ IF Lookup(u, d) # "ok"
       THEN /\ Finish(r, "delete", u, d, "not_found", Response(404, <<Lookup(u, d)>>))
            /\ UNCHANGED <<db, fails>>
       ELSE /\ docs' = [docs EXCEPT ![d] = NoDoc]
            /\ pages' = pages \ PagesOf(d)
            /\ chunks' = chunks \ ChunksOf(d)
            /\ convs' = convs \ ConvsOf(d)
            /\ msgs' = {m \in msgs : m.conversation_id \notin {c.id : c \in ConvsOf(d)}}
            /\ Finish(r, "delete", u, d, "deleted", Response(204, <<>>))
            /\ UNCHANGED <<users, nextDoc, nextPage, nextChunk, nextConv, nextMsg, fails>>

\* The app's handler for exceptions no route handler caught (main.py).
Unhandled(e) == Response(500, <<"error", str(e)>>)

\* PDFService.extract_text_from_pdf: one record per page, numbered from 1.
extract_text_from_pdf(f) ==
    [i \in 1..Len(FileText(f)) |->
        [page_number |-> i, text |-> FileText(f)[i], character_count |-> Len(FileText(f)[i])]]

PageUnique_Off(d, pages_data) == TRUE

\* uix_document_page: no stored Page of the document has one of these numbers,
\* and no two of the new rows share one.
PageUnique(d, pages_data) ==
    /\ \A i \in 1..Len(pages_data) :
          ~\E p \in PagesOf(d) : p.page_number = pages_data[i].page_number
    /\ \A i, j \in 1..Len(pages_data) :
          pages_data[i].page_number = pages_data[j].page_number => i = j

\* uix_document_page_chunk, likewise for (page_number, chunk_index).
ChunkUnique(d, chunks_data) ==
    /\ \A i \in 1..Len(chunks_data) :
          ~\E c \in ChunksOf(d) : /\ c.page_number = chunks_data[i].page_number
                                  /\ c.chunk_index = chunks_data[i].chunk_index
    /\ \A i, j \in 1..Len(chunks_data) :
          (/\ chunks_data[i].page_number = chunks_data[j].page_number
           /\ chunks_data[i].chunk_index = chunks_data[j].chunk_index) => i = j

IndexedRow_Swapped(row, pages_data, chunks_data, now) ==
    [row EXCEPT !.status = "indexed", !.page_count = Len(chunks_data),
                !.chunk_count = Len(pages_data), !.indexed_at = now]

\* What the last commit of index_document writes to the Document row.
IndexedRow(row, pages_data, chunks_data, now) ==
    [row EXCEPT !.status = "indexed", !.page_count = Len(pages_data),
                !.chunk_count = Len(chunks_data), !.indexed_at = now]

IndexRequest_NoCheck(r, u, d) ==
    /\ Start(r)
    /\ UNCHANGED <<db, fails>>
    /\ IF Lookup(u, d) # "ok"
       THEN Finish(r, "index", u, d, "not_found", Response(404, <<Lookup(u, d)>>))
       ELSE Goto(r, "idx_mark",
                 [op |-> "index", user |-> u, doc |-> d, loaded |-> docs[d].status,
                  dead |-> FALSE, pages_data |-> <<>>, chunks_data |-> <<>>,
                  e |-> Exc("none", <<>>)])

IndexRequest_UploadedOnly(r, u, d) ==
    /\ Start(r)
    /\ UNCHANGED <<db, fails>>
    /\ IF Lookup(u, d) # "ok"
       THEN Finish(r, "index", u, d, "not_found", Response(404, <<Lookup(u, d)>>))
       ELSE IF docs[d].status # "uploaded"
       THEN Finish(r, "index", u, d, "rejected", Response(400, <<"Document is already indexed">>))
       ELSE Goto(r, "idx_mark",
                 [op |-> "index", user |-> u, doc |-> d, loaded |-> docs[d].status,
                  dead |-> FALSE, pages_data |-> <<>>, chunks_data |-> <<>>,
                  e |-> Exc("none", <<>>)])

\* A variant that refuses the request while another request is indexing the
\* same document.
IndexRequest_Locked(r, u, d) ==
    /\ Start(r)
    /\ UNCHANGED <<db, fails>>
    /\ IF Lookup(u, d) # "ok"
       THEN Finish(r, "index", u, d, "not_found", Response(404, <<Lookup(u, d)>>))
       ELSE IF docs[d].status = "indexed"
       THEN Finish(r, "index", u, d, "rejected", Response(400, <<"Document is already indexed">>))
       ELSE IF \E o \in Slots : pc[o] # "idle" /\ loc[o].op = "index" /\ loc[o].doc = d
       THEN Finish(r, "index", u, d, "rejected", Response(409, <<"Document is being indexed">>))
       ELSE Goto(r, "idx_mark",
                 [op |-> "index", user |-> u, doc |-> d, loaded |-> docs[d].status,
                  dead |-> FALSE, pages_data |-> <<>>, chunks_data |-> <<>>,
                  e |-> Exc("none", <<>>)])

\* index_document, lines 136-158: the lookups and the status check.
\* loaded is the status the Session holds for the document ("expired" after
\* a commit); dead says the Session's transaction was rolled back by a failed
\* flush and no rollback() was called since.
IndexRequest(r, u, d) ==
    /\ Start(r)
    /\ UNCHANGED <<db, fails>>
    /\ IF Lookup(u, d) # "ok"
       THEN Finish(r, "index", u, d, "not_found", Response(404, <<Lookup(u, d)>>))
       ELSE IF docs[d].status = "indexed"
       THEN Finish(r, "index", u, d, "rejected", Response(400, <<"Document is already indexed">>))
       ELSE Goto(r, "idx_mark",
                 [op |-> "index", user |-> u, doc |-> d, loaded |-> docs[d].status,
                  dead |-> FALSE, pages_data |-> <<>>, chunks_data |-> <<>>,
                  e |-> Exc("none", <<>>)])

\* lines 160-162: document.status = "processing"; db.commit().  The UPDATE is
\* sent only if the value differs from the loaded one; it is outside the try.
IndexMarkProcessing(r) ==
    /\ pc[r] = "idx_mark"
    /\ UNCHANGED <<users, nextDoc, pages, nextPage, chunks, nextChunk, convs, nextConv,
                   msgs, nextMsg, ops>>
    /\ LET d == loc[r].doc IN
       IF loc[r].loaded = "processing"
       THEN /\ Goto(r, "idx_extract", [loc[r] EXCEPT !.loaded = "expired"])
            /\ UNCHANGED <<docs, fails>>
       ELSE IF ~Exists(d)
       THEN /\ Finish(r, "index", loc[r].user, d, "mark_failed", Unhandled(Exc("StaleDataError", <<"row gone">>)))
            /\ UNCHANGED <<docs, fails>>
       ELSE \/ /\ docs' = [docs EXCEPT ![d].status = "processing"]
               /\ Goto(r, "idx_extract", [loc[r] EXCEPT !.loaded = "expired"])
               /\ UNCHANGED fails
            \/ /\ Fails
               /\ Finish(r, "index", loc[r].user, d, "mark_failed", Unhandled(Exc("OperationalError", <<"store">>)))
               /\ UNCHANGED docs

\* The except branch is entered with exception e.
IndexRaise(r, e, dead) == Goto(r, "idx_except", [loc[r] EXCEPT !.e = e, !.dead = dead])

\* line 166: document.storage_path reloads the row, then the PDF is read.
IndexExtract(r) ==
    /\ pc[r] = "idx_extract"
    /\ UNCHANGED <<db, ops>>
    /\ LET d == loc[r].doc IN
       IF ~Exists(d)
       THEN /\ IndexRaise(r, Exc("ObjectDeletedError", <<"row gone">>), FALSE)
            /\ UNCHANGED fails
       ELSE \/ /\ Goto(r, "idx_pages", [loc[r] EXCEPT !.loaded = docs[d].status,
                                          !.pages_data = extract_text_from_pdf(docs[d].file)])
               /\ UNCHANGED fails
            \/ /\ Fails
               /\ IndexRaise(r, Exc("Exception", <<"Error extracting text from PDF">>), FALSE)

\* A variant that flips the status to "indexed" in the commit of the pages.
IndexPersistPages_AndStatus(r) ==
    /\ pc[r] = "idx_pages"
    /\ UNCHANGED <<users, nextDoc, chunks, nextChunk, convs, nextConv, msgs, nextMsg, ops>>
    /\ LET d == loc[r].doc
           pd == loc[r].pages_data
           rows == {[id |-> nextPage + i - 1, document_id |-> d, page_number |-> pd[i].page_number,
                     character_count |-> pd[i].character_count] : i \in 1..Len(pd)}
       IN
       IF ~Exists(d) \/ ~PageUnique(d, pd)
       THEN /\ IndexRaise(r, Exc("IntegrityError", <<"pages">>), TRUE)
            /\ UNCHANGED <<docs, pages, nextPage, fails>>
       ELSE /\ pages' = pages \cup rows
            /\ nextPage' = nextPage + Len(pd)
            /\ docs' = [docs EXCEPT ![d].status = "indexed"]
            /\ Goto(r, "idx_chunks", [loc[r] EXCEPT !.loaded = "expired"])
            /\ UNCHANGED fails

\* lines 168-178: one Page per extracted page, then db.commit().
IndexPersistPages(r) ==
    /\ pc[r] = "idx_pages"
    /\ UNCHANGED <<users, docs, nextDoc, chunks, nextChunk, convs, nextConv, msgs, nextMsg, ops>>
    /\ LET d == loc[r].doc
           pd == loc[r].pages_data
           rows == {[id |-> nextPage + i - 1, document_id |-> d, page_number |-> pd[i].page_number,
                     character_count |-> pd[i].character_count] : i \in 1..Len(pd)}
       IN
       IF pd # <<>> /\ (~Exists(d) \/ ~PageUnique(d, pd))
       THEN /\ IndexRaise(r, Exc("IntegrityError", <<"pages">>), TRUE)
            /\ UNCHANGED <<pages, nextPage, fails>>
       ELSE \/ /\ pages' = pages \cup rows
               /\ nextPage' = nextPage + Len(pd)
               /\ Goto(r, "idx_chunks", [loc[r] EXCEPT !.loaded = "expired"])
               /\ UNCHANGED fails
            \/ /\ Fails
               /\ IndexRaise(r, Exc("OperationalError", <<"store">>), TRUE)
               /\ UNCHANGED <<pages, nextPage>>

\* lines 180-194: chunk_pages, one Chunk per chunk, then db.commit().
\* document.id reloads the row when there is a chunk to build.
IndexPersistChunks(r) ==
    /\ pc[r] = "idx_chunks"
    /\ UNCHANGED <<users, docs, nextDoc, pages, nextPage, convs, nextConv, msgs, nextMsg, ops>>
    /\ LET d == loc[r].doc
           cd == chunk_pages(loc[r].pages_data, IndexMaxTokens, IndexOverlapTokens)
           rows == {[id |-> nextChunk + i - 1, document_id |-> d, page_number |-> cd[i].page_number,
                     chunk_index |-> cd[i].chunk_index, text |-> cd[i].text,
                     token_count |-> cd[i].token_count] : i \in 1..Len(cd)}
       IN
       IF cd # <<>> /\ ~Exists(d)
       THEN /\ IndexRaise(r, Exc("ObjectDeletedError", <<"row gone">>), FALSE)
            /\ UNCHANGED <<chunks, nextChunk, fails>>
       ELSE IF ~ChunkUnique(d, cd)
       THEN /\ IndexRaise(r, Exc("IntegrityError", <<"chunks">>), TRUE)
            /\ UNCHANGED <<chunks, nextChunk, fails>>
       ELSE \/ /\ chunks' = chunks \cup rows
               /\ nextChunk' = nextChunk + Len(cd)
               /\ Goto(r, "idx_finish", [loc[r] EXCEPT !.loaded = "expired", !.chunks_data = cd])
               /\ UNCHANGED fails
            \/ /\ Fails
               /\ IndexRaise(r, Exc("OperationalError", <<"store">>), TRUE)
               /\ UNCHANGED <<chunks, nextChunk>>

\* lines 196-211: status, page_count, chunk_count and indexed_at in one commit.
IndexFinish(r) ==
    /\ pc[r] = "idx_finish"
    /\ UNCHANGED <<users, nextDoc, pages, nextPage, chunks, nextChunk, convs, nextConv,
                   msgs, nextMsg, ops>>
    /\ LET d == loc[r].doc IN
       IF ~Exists(d)
       THEN /\ IndexRaise(r, Exc("StaleDataError", <<"row gone">>), TRUE)
            /\ UNCHANGED <<docs, fails>>
       ELSE \/ /\ docs' = [docs EXCEPT ![d] =
                             IndexedRow(docs[d], loc[r].pages_data, loc[r].chunks_data, ops)]
               /\ Finish(r, "index", loc[r].user, d, "indexed", Response(200, <<"success">>))
               /\ UNCHANGED fails
            \/ /\ Fails
               /\ IndexRaise(r, Exc("OperationalError", <<"store">>), TRUE)
               /\ UNCHANGED docs

\* lines 213-221: document.status = "failed"; db.commit(); raise the 500.
\* A Session whose flush failed raises on this commit until rollback() is
\* called, and the handler calls none.
IndexExcept(r) ==
    /\ pc[r] = "idx_except"
    /\ UNCHANGED <<users, nextDoc, pages, nextPage, chunks, nextChunk, convs, nextConv,
                   msgs, nextMsg, ops>>
    /\ LET d == loc[r].doc
           raised == Response(500, <<"Indexing failed", str(loc[r].e)>>)
       IN
       IF loc[r].dead
       THEN /\ Finish(r, "index", loc[r].user, d, "raised", Unhandled(Exc("PendingRollbackError", <<"rollback">>)))
            /\ UNCHANGED <<docs, fails>>
       ELSE IF loc[r].loaded = "failed"
       THEN /\ Finish(r, "index", loc[r].user, d, "raised", raised)
            /\ UNCHANGED <<docs, fails>>
       ELSE IF ~Exists(d)
       THEN /\ Finish(r, "index", loc[r].user, d, "raised", Unhandled(Exc("StaleDataError", <<"row gone">>)))
            /\ UNCHANGED <<docs, fails>>
       ELSE \/ /\ docs' = [docs EXCEPT ![d].status = "failed"]
               /\ Finish(r, "index", loc[r].user, d, "raised", raised)
               /\ UNCHANGED fails
            \/ /\ Fails
               /\ Finish(r, "index", loc[r].user, d, "raised", Unhandled(Exc("OperationalError", <<"store">>)))
               /\ UNCHANGED docs

\* ------------------------------------------------------------- chat router
\* title=request.question[:100] + "..." if len(request.question) > 100 else request.question
Title(question) ==
    IF Len(question) > TitleMax THEN Slice(question, 1, TitleMax) \o <<".", ".", ".">> ELSE question

\* The orders in which the store may enumerate a set of rows (the query has
\* no ORDER BY).
Enumerations(rows) ==
    {f \in [1..Cardinality(rows) -> rows] : \A i, j \in 1..Cardinality(rows) : f[i] = f[j] => i = j}

\* ask_question, lines 153-158: the except branch catches every Exception
\* raised in the try block, HTTPException included; db.rollback() drops what
\* the Session held, and a 500 carrying str(e) is raised.
AskFailure(e) == Response(500, <<"Failed to process question">> \o str(e))

AskExcept(r, cause, e) ==
    /\ Finish(r, "ask", loc[r].user, loc[r].doc, cause, AskFailure(e))
    /\ UNCHANGED db

AskRequest_NoCheck(r, u, d, cid, q) ==
    /\ Start(r)
    /\ UNCHANGED <<db, fails>>
    /\ LET l == [op |-> "ask", user |-> u, doc |-> d, question |-> q, conv |-> cid.id,
                 relevant_chunks |-> <<>>, answer |-> <<>>, citations |-> <<>>]
       IN
       IF Lookup(u, d) # "ok"
       THEN Finish(r, "ask", u, d, "not_found", Response(404, <<Lookup(u, d)>>))
       ELSE IF cid.some /\ cid.id > 0
       THEN IF \E c \in convs : c.id = cid.id /\ c.document_id = d /\ c.user_id = u
            THEN Goto(r, "ask_retrieve", l)
            ELSE Finish(r, "ask", u, d, "no_conversation", Response(404, <<"Conversation not found">>))
       ELSE IF cid.some
       THEN Finish(r, "ask", u, d, "bad_conversation", Response(400, <<"Invalid conversation_id">>))
       ELSE Goto(r, "ask_conv", l)

AskRequest_AnyConversation(r, u, d, cid, q) ==
    /\ Start(r)
    /\ UNCHANGED <<db, fails>>
    /\ LET l == [op |-> "ask", user |-> u, doc |-> d, question |-> q, conv |-> cid.id,
                 relevant_chunks |-> <<>>, answer |-> <<>>, citations |-> <<>>]
       IN
       IF Lookup(u, d) # "ok"
       THEN Finish(r, "ask", u, d, "not_found", Response(404, <<Lookup(u, d)>>))
       ELSE IF docs[d].status # "indexed"
       THEN Finish(r, "ask", u, d, "not_ready",
                   Response(400, <<"Document is not ready for questions", docs[d].status>>))
       ELSE IF cid.some /\ cid.id > 0
       THEN IF \E c \in convs : c.id = cid.id
            THEN Goto(r, "ask_retrieve", l)
            ELSE Finish(r, "ask", u, d, "no_conversation", Response(404, <<"Conversation not found">>))
       ELSE IF cid.some
       THEN Finish(r, "ask", u, d, "bad_conversation", Response(400, <<"Invalid conversation_id">>))
       ELSE Goto(r, "ask_conv", l)

\* ask_question, lines 32-77: the lookups, the status check and the
\* conversation_id checks.
AskRequest(r, u, d, cid, q) ==
    /\ Start(r)
    /\ UNCHANGED <<db, fails>>
    /\ LET l == [op |-> "ask", user |-> u, doc |-> d, question |-> q, conv |-> cid.id,
                 relevant_chunks |-> <<>>, answer |-> <<>>, citations |-> <<>>]
       IN
       IF Lookup(u, d) # "ok"
       THEN Finish(r, "ask", u, d, "not_found", Response(404, <<Lookup(u, d)>>))
       ELSE IF docs[d].status # "indexed"
       THEN Finish(r, "ask", u, d, "not_ready",
                   Response(400, <<"Document is not ready for questions", docs[d].status>>))
       ELSE IF cid.some /\ cid.id > 0
       THEN IF \E c \in convs : c.id = cid.id /\ c.document_id = d /\ c.user_id = u
            THEN Goto(r, "ask_retrieve", l)
            ELSE Finish(r, "ask", u, d, "no_conversation", Response(404, <<"Conversation not found">>))
       ELSE IF cid.some
       THEN Finish(r, "ask", u, d, "bad_conversation", Response(400, <<"Invalid conversation_id">>))
       ELSE Goto(r, "ask_conv", l)

\* lines 78-87: the new Conversation is added and committed, outside the try.
AskCreateConversation(r) ==
    /\ pc[r] = "ask_conv"
    /\ UNCHANGED <<users, docs, nextDoc, pages, nextPage, chunks, nextChunk, msgs, nextMsg, ops>>
    /\ LET d == loc[r].doc IN
       IF ~Exists(d)
       THEN /\ Finish(r, "ask", loc[r].user, d, "conv_failed", Unhandled(Exc("IntegrityError", <<"conversations">>)))
            /\ UNCHANGED <<convs, nextConv, fails>>
       ELSE \/ /\ convs' = convs \cup {[id |-> nextConv, document_id |-> d, user_id |-> loc[r].user,
                                        title |-> Title(loc[r].question), updated_at |-> ops]}
               /\ nextConv' = nextConv + 1
               /\ Goto(r, "ask_retrieve", [loc[r] EXCEPT !.conv = nextConv])
               /\ UNCHANGED fails
            \/ /\ Fails
               /\ Finish(r, "ask", loc[r].user, d, "conv_failed", Unhandled(Exc("OperationalError", <<"store">>)))
               /\ UNCHANGED <<convs, nextConv>>

\* lines 90-102: keyword_search with top_k=5; an empty result raises the
\* 404 HTTPException inside the try block.
AskRetrieve(r) ==
    /\ pc[r] = "ask_retrieve"
    /\ UNCHANGED <<fails, ops>>
    /\ \E rows \in Enumerations(ChunksOf(loc[r].doc)) :
          LET relevant_chunks == keyword_search(loc[r].question, rows, AskTopK) IN
          IF relevant_chunks = <<>>
          THEN AskExcept(r, "no_relevant_content",
                         Exc("HTTPException", <<"404", "No relevant content found in the document">>))
          ELSE /\ Goto(r, "ask_generate", [loc[r] EXCEPT !.relevant_chunks = relevant_chunks])
               /\ UNCHANGED db

\* lines 104-112: format_sources_for_llm, then answer_with_sources.
AskGenerate(r) ==
    /\ pc[r] = "ask_generate"
    /\ UNCHANGED ops
    /\ \E reply \in LLMReplies :
          LET src == format_sources_for_llm(loc[r].relevant_chunks)
              res == answer_with_sources(src.source_text, src.source_to_page, reply)
          IN
          IF res.ok
          THEN /\ Goto(r, "ask_persist", [loc[r] EXCEPT !.answer = res.answer, !.citations = res.citations])
               /\ UNCHANGED <<db, fails>>
          ELSE /\ Fails
               /\ AskExcept(r, reply.kind, res.e)

\* A variant that takes the chunk id of the first retrieved chunk for every
\* citation.
CitationsJson_First(citations, relevant_chunks) ==
    [i \in 1..Len(citations) |->
        [page |-> citations[i].page, snippet |-> citations[i].snippet,
         chunk_id |-> relevant_chunks[1].chunk_id]]

\* The citations_json comprehension of lines 123-130; the chunk is
\* relevant_chunks[int(source_label[1:]) - 1], counted from 0.
CitationsJson(citations, relevant_chunks) ==
    [i \in 1..Len(citations) |->
        [page |-> citations[i].page, snippet |-> citations[i].snippet,
         chunk_id |-> relevant_chunks[StrInt(Tail(citations[i].source_label))].chunk_id]]

\* A variant that commits the user Message before the assistant Message is built.
AskPersist_UserFirst(r) ==
    /\ pc[r] = "ask_persist"
    /\ UNCHANGED ops
    /\ LET citations_json == CitationsJson(loc[r].citations, loc[r].relevant_chunks)
           user_message == [id |-> nextMsg, conversation_id |-> loc[r].conv, role |-> "user",
                            content |-> loc[r].question, citations_json |-> <<>>]
           assistant_message == [id |-> nextMsg + 1, conversation_id |-> loc[r].conv,
                                 role |-> "assistant", content |-> loc[r].answer,
                                 citations_json |-> citations_json]
       IN
       IF ~\E c \in convs : c.id = loc[r].conv
       THEN /\ AskExcept(r, "persist_failed", Exc("IntegrityError", <<"messages">>))
            /\ UNCHANGED fails
       ELSE \/ /\ msgs' = msgs \cup {user_message, assistant_message}
               /\ nextMsg' = nextMsg + 2
               /\ convs' = {IF c.id = loc[r].conv THEN [c EXCEPT !.updated_at = ops] ELSE c : c \in convs}
               /\ Finish(r, "ask", loc[r].user, loc[r].doc, "answered", Response(200, loc[r].answer))
               /\ UNCHANGED <<users, docs, nextDoc, pages, nextPage, chunks, nextChunk, nextConv, fails>>
            \/ /\ Fails
               /\ msgs' = msgs \cup {user_message}
               /\ nextMsg' = nextMsg + 1
               /\ Finish(r, "ask", loc[r].user, loc[r].doc, "persist_failed",
                         AskFailure(Exc("OperationalError", <<"store">>)))
               /\ UNCHANGED <<users, docs, nextDoc, pages, nextPage, chunks, nextChunk, convs, nextConv>>

\* lines 114-151: the user Message, the assistant Message and the
\* conversation's updated_at, in one commit.
AskPersist(r) ==
    /\ pc[r] = "ask_persist"
    /\ UNCHANGED ops
    /\ LET citations_json == CitationsJson(loc[r].citations, loc[r].relevant_chunks)
           user_message == [id |-> nextMsg, conversation_id |-> loc[r].conv, role |-> "user",
                            content |-> loc[r].question, citations_json |-> <<>>]
           assistant_message == [id |-> nextMsg + 1, conversation_id |-> loc[r].conv,
                                 role |-> "assistant", content |-> loc[r].answer,
                                 citations_json |-> citations_json]
       IN
       IF ~\E c \in convs : c.id = loc[r].conv
       THEN /\ AskExcept(r, "persist_failed", Exc("IntegrityError", <<"messages">>))
            /\ UNCHANGED fails
       ELSE \/ /\ msgs' = msgs \cup {user_message, assistant_message}
               /\ nextMsg' = nextMsg + 2
               /\ convs' = {IF c.id = loc[r].conv THEN [c EXCEPT !.updated_at = ops] ELSE c : c \in convs}
               /\ Finish(r, "ask", loc[r].user, loc[r].doc, "answered", Response(200, loc[r].answer))
               /\ UNCHANGED <<users, docs, nextDoc, pages, nextPage, chunks, nextChunk, nextConv, fails>>
            \/ /\ Fails
               /\ AskExcept(r, "persist_failed", Exc("OperationalError", <<"store">>))

Next ==
    \/ \E r \in Slots, u \in Users, f \in Files : UploadDocument(r, u, f)
    \/ \E r \in Slots, u \in Users, d \in DocIds : GetDocument(r, u, d)
    \/ \E r \in Slots, u \in Users, d \in DocIds : DeleteDocument(r, u, d)
    \/ \E r \in Slots, u \in Users, d \in DocIds : IndexRequest(r, u, d)
    \/ \E r \in Slots : IndexMarkProcessing(r)
    \/ \E r \in Slots : IndexExtract(r)
    \/ \E r \in Slots : IndexPersistPages(r)
    \/ \E r \in Slots : IndexPersistChunks(r)
    \/ \E r \in Slots : IndexFinish(r)
    \/ \E r \in Slots : IndexExcept(r)
    \/ \E r \in Slots, u \in Users, d \in DocIds, cid \in ConvIdInputs, q \in Questions :
          AskRequest(r, u, d, cid, q)
    \/ \E r \in Slots : AskCreateConversation(r)
    \/ \E r \in Slots : AskRetrieve(r)
    \/ \E r \in Slots : AskGenerate(r)
    \/ \E r \in Slots : AskPersist(r)

Spec == Init /\ [][Next]_vars

\* ------------------------------------------------- a store with history
\* The rows the store holds after caller u1 has uploaded the file "pets",
\* indexed it, asked "cat?" in a new conversation, answered "[S1].", and then
\* uploaded and indexed the file "blank": document 1 with its pages and
\* chunks, conversation 1 with its two messages, and document 2 with its page.
SeedDocs ==
    [d \in DocIds |->
        IF d = 1
        THEN [owner_id |-> "u1", file |-> "pets", status |-> "indexed", page_count |-> 2,
              chunk_count |-> 2, indexed_at |-> 2]
        ELSE IF d = 2
        THEN [owner_id |-> "u1", file |-> "blank", status |-> "indexed", page_count |-> 1,
              chunk_count |-> 0, indexed_at |-> 5]
        ELSE NoDoc]

SeedPages ==
    LET pd == extract_text_from_pdf("pets") IN
    {[id |-> i, document_id |-> 1, page_number |-> pd[i].page_number,
      character_count |-> pd[i].character_count] : i \in 1..Len(pd)}
      \cup {[id |-> 3, document_id |-> 2, page_number |-> 1, character_count |-> 0]}

SeedChunks ==
    LET cd == chunk_pages(extract_text_from_pdf("pets"), IndexMaxTokens, IndexOverlapTokens) IN
    {[id |-> i, document_id |-> 1, page_number |-> cd[i].page_number,
      chunk_index |-> cd[i].chunk_index, text |-> cd[i].text,
      token_count |-> cd[i].token_count] : i \in 1..Len(cd)}

SeedConvs ==
    {[id |-> 1, document_id |-> 1, user_id |-> "u1", title |-> <<"c", "a", "t", "?">>, updated_at |-> 3]}

SeedMsgs ==
    LET rows == [i \in 1..2 |-> CHOOSE c \in SeedChunks : c.id = i]
        relevant_chunks == keyword_search(<<"c", "a", "t", "?">>, rows, AskTopK)
        src == format_sources_for_llm(relevant_chunks)
        answer == <<"[", "S", "1", "]", ".">>
        citations == parse_citations(answer, src.source_text, src.source_to_page)
    IN {[id |-> 1, conversation_id |-> 1, role |-> "user", content |-> <<"c", "a", "t", "?">>,
         citations_json |-> <<>>],
        [id |-> 2, conversation_id |-> 1, role |-> "assistant", content |-> answer,
         citations_json |-> CitationsJson(citations, relevant_chunks)]}

\* The store holds exactly those rows.
SeedStored ==
    /\ users = {"u1"}
    /\ docs = SeedDocs
    /\ nextDoc = 3
    /\ pages = SeedPages
    /\ nextPage = 4
    /\ chunks = SeedChunks
    /\ nextChunk = 3
    /\ convs = SeedConvs
    /\ nextConv = 2
    /\ msgs = SeedMsgs
    /\ nextMsg = 3

\* Requests that made the seeded store count as one.
SeedOps == 1

\* The service starts on that store, with no request in progress.
SeededInit ==
    /\ SeedStored
    /\ pc = [r \in Slots |-> "idle"]
    /\ loc = [r \in Slots |-> Idle]
    /\ last = NoLast
    /\ ops = SeedOps
    /\ fails = 0
    /\ call = NoCall

SeededSpec == SeededInit /\ [][Next]_vars

\* ----------------------------------------------------------- request steps
\* This step is caller u's request op on document d passing its entry checks:
\* a free slot takes it and goes on to the handler's next step.
Accepted(op, u, d) ==
    \E r \in Slots : /\ pc[r] = "idle" /\ pc'[r] # "idle"
                     /\ loc'[r].op = op /\ loc'[r].user = u /\ loc'[r].doc = d

\* This step is caller u's request op on document d answered by its entry
\* checks: no slot is left working on it.
Refused(op, u, d) ==
    /\ ops' = ops + 1 /\ pc' = pc
    /\ last'.op = op /\ last'.user = u /\ last'.doc = d

Requested(op, u, d) == Accepted(op, u, d) \/ Refused(op, u, d)

\* This step ends slot r's request, for cause.
Ends(r, cause) == pc[r] # "idle" /\ pc'[r] = "idle" /\ last'.cause = cause

\* ------------------------------------------------------------------ claims
\* C1: an index request on a document whose status is "indexed" is refused
\* (400 to the owner, 404 to anyone else) and no stored row changes.
Thm_C1 ==
    [][\A u \in Users, d \in DocIds :
          (Requested("index", u, d) /\ Exists(d) /\ docs[d].status = "indexed")
          => /\ Refused("index", u, d)
             /\ last'.resp.status \in {400, 404}
             /\ docs[d].owner_id = u => last'.resp = Response(400, <<"Document is already indexed">>)
             /\ UNCHANGED db]_vars

Witness_C1 ==
    /\ last.op = "index" /\ last.cause = "rejected" /\ last.resp.status = 400
    /\ Exists(last.doc) /\ docs[last.doc].status = "indexed"
    /\ ChunksOf(last.doc) # {}

\* C2: an ask request on a document whose status is not "indexed" is refused
\* before any retrieval or generation step, and no stored row changes.
Thm_C2 ==
    [][\A u \in Users, d \in DocIds :
          (Requested("ask", u, d) /\ Exists(d) /\ docs[d].status # "indexed")
          => /\ Refused("ask", u, d)
             /\ last'.resp.status \in {400, 404}
             /\ docs[d].owner_id = u =>
                   last'.resp = Response(400, <<"Document is not ready for questions", docs[d].status>>)
             /\ UNCHANGED db]_vars

Witness_C2 ==
    /\ last.op = "ask" /\ last.cause = "not_ready" /\ last.resp.status = 400
    /\ Exists(last.doc) /\ docs[last.doc].status = "failed"

\* C3: a document whose status is "indexed" has indexed_at set, page_count
\* and chunk_count equal to the numbers of its stored Page and Chunk rows,
\* and those rows are the whole extraction and the whole chunking of its file.
Thm_C3 ==
    \A d \in DocIds :
       (Exists(d) /\ docs[d].status = "indexed") =>
          LET pd == extract_text_from_pdf(docs[d].file)
              cd == chunk_pages(pd, IndexMaxTokens, IndexOverlapTokens)
          IN /\ docs[d].indexed_at # NULL
             /\ docs[d].page_count = Cardinality(PagesOf(d))
             /\ docs[d].chunk_count = Cardinality(ChunksOf(d))
             /\ {p.page_number : p \in PagesOf(d)} = {pd[i].page_number : i \in 1..Len(pd)}
             /\ {<<c.page_number, c.chunk_index, c.text>> : c \in ChunksOf(d)}
                   = {<<cd[i].page_number, cd[i].chunk_index, cd[i].text>> : i \in 1..Len(cd)}
             /\ Cardinality(PagesOf(d)) = Len(pd)
             /\ Cardinality(ChunksOf(d)) = Len(cd)

Witness_C3 ==
    \E d \in DocIds : /\ Exists(d) /\ docs[d].status = "indexed"
                      /\ docs[d].page_count = 1 /\ docs[d].chunk_count = 0
                      /\ last.op = "index" /\ last.cause = "indexed"

\* C4 (as stated): an index request that ends in the handler's except branch
\* leaves the document's status "failed", answers with the handler's 500 and
\* does not set indexed_at.
Cex_C4 ==
    [][\A r \in Slots :
          (Ends(r, "raised") /\ loc[r].op = "index" /\ Exists(loc[r].doc))
          => /\ docs'[loc[r].doc].status = "failed"
             /\ last'.resp = Response(500, <<"Indexing failed", str(loc[r].e)>>)
             /\ docs'[loc[r].doc].indexed_at = docs[loc[r].doc].indexed_at]_vars

\* C5: the owner's index request on a stored document is accepted exactly
\* when its status is not "indexed" ("uploaded", "failed", and "processing"
\* too: the status check is the only guard), and an accepted request that
\* loaded "uploaded" or "failed" and goes on has written "processing".
Thm_C5 ==
    [][/\ \A u \in Users, d \in DocIds :
             (Requested("index", u, d) /\ Exists(d) /\ docs[d].owner_id = u)
             => /\ Accepted("index", u, d) <=> docs[d].status \in {"uploaded", "failed", "processing"}
                /\ Refused("index", u, d) <=> docs[d].status = "indexed"
       /\ \A r \in Slots :
             (pc[r] = "idx_mark" /\ pc'[r] = "idx_extract" /\ loc[r].loaded \in {"uploaded", "failed"})
             => docs'[loc[r].doc].status = "processing"]_vars

Witness_C5 ==
    \E r \in Slots : /\ pc[r] = "idx_mark" /\ loc[r].loaded = "failed"
                     /\ last.op = "index" /\ last.cause = "raised"

\* C6: once a document has been marked indexed, its Chunk rows and its Page
\* rows stay exactly as they are for as long as the document is stored,
\* whatever requests run on it.
Thm_C6 ==
    [][\A d \in DocIds :
          (Exists(d) /\ docs[d].indexed_at # NULL /\ docs'[d] # NoDoc)
          => /\ {c \in chunks' : c.document_id = d} = ChunksOf(d)
             /\ {p \in pages' : p.document_id = d} = PagesOf(d)]_vars

Witness_C6 ==
    \E r \in Slots : /\ pc[r] = "idx_except" /\ loc[r].e.type = "IntegrityError"
                     /\ Exists(loc[r].doc) /\ docs[loc[r].doc].status = "indexed"
                     /\ PagesOf(loc[r].doc) # {}

\* The user Message and the assistant Message of an exchange are stored
\* together: each user row has the assistant row that follows it in the same
\* conversation, and each assistant row the user row before it.
PairInv ==
    \A m \in msgs :
       /\ m.role = "user" =>
             \E a \in msgs : /\ a.id = m.id + 1 /\ a.role = "assistant"
                             /\ a.conversation_id = m.conversation_id
       /\ m.role = "assistant" =>
             \E q \in msgs : /\ q.id = m.id - 1 /\ q.role = "user"
                             /\ q.conversation_id = m.conversation_id

\* C7: an exchange's two Message rows are stored both or neither, and an ask
\* whose persist step fails stores no Message row and answers with an error.
Thm_C7 ==
    [][/\ PairInv'
       /\ \A r \in Slots :
             (Ends(r, "persist_failed") /\ loc[r].op = "ask")
             => /\ msgs' = msgs
                /\ last'.resp.status = 500]_vars

Witness_C7 ==
    /\ last.op = "ask" /\ last.cause = "persist_failed" /\ last.resp.status = 500
    /\ \E c \in convs : c.document_id = last.doc /\ ~\E m \in msgs : m.conversation_id = c.id

\* C8 (as stated): the completion service is asked, and Message rows are
\* written, only for a retrieval in which some chunk contains a keyword of
\* the question; otherwise the retrieval is empty.
Cex_C8 ==
    \A r \in Slots :
       pc[r] \in {"ask_generate", "ask_persist"} =>
          \E i \in 1..Len(loc[r].relevant_chunks) : loc[r].relevant_chunks[i].score.num > 0

\* C9 (as stated): an ask whose retrieval is empty is answered with the 404
\* "no relevant content" outcome, not with the generic 500.
Cex_C9 ==
    (last.op = "ask" /\ last.cause = "no_relevant_content")
    => last.resp = Response(404, <<"No relevant content found in the document">>)

\* C10 (as stated): the response to an ask whose generation failed tells the
\* kind of failure: no failure of the other kind gives the same response.
Cex_C10 ==
    (last.op = "ask" /\ last.cause \in LLMKinds)
    => \A reply \in LLMReplies :
          (~reply.ok /\ reply.kind # last.cause)
          => AskFailure(answer_with_sources(<<>>, <<>>, reply).e) # last.resp

\* The conversation a working ask request of slot r holds belongs to the
\* request's document and caller, in the store st of conversations.
ConvBelongs(l, st) ==
    \E c \in st : c.id = l.conv /\ c.document_id = l.doc /\ c.user_id = l.user

\* C11: an ask request that names a conversation goes on only if that
\* conversation belongs to the asked document and the caller; an ask request
\* answered by the entry checks appends no message; and the messages an ask
\* request stores go to a conversation of its document and its caller.
Thm_C11 ==
    [][\A r \in Slots :
          /\ (pc[r] = "idle" /\ pc'[r] = "ask_retrieve") => ConvBelongs(loc'[r], convs)
          /\ (pc[r] = "idle" /\ pc' = pc /\ ops' = ops + 1 /\ last'.op = "ask")
                => (msgs' = msgs /\ convs' = convs)
          /\ (Ends(r, "answered") /\ loc[r].op = "ask")
                => /\ msgs' # msgs
                   /\ \A m \in msgs' \ msgs :
                         m.conversation_id = loc[r].conv /\ ConvBelongs(loc[r], convs')]_vars

\* The caller named conversation 1, which is document 1's, when asking about
\* its own indexed document 2, and was refused.
Witness_C11 ==
    /\ last.op = "ask" /\ last.cause = "no_conversation" /\ last.user = "u1" /\ last.doc = 2
    /\ Exists(2) /\ docs[2].owner_id = "u1" /\ docs[2].status = "indexed"
    /\ \E c \in convs : c.id = 1 /\ c.document_id = 1 /\ c.user_id = "u1"
    /\ msgs = SeedMsgs

\* C12: index, get, delete and ask requests on a document that does not
\* exist or is not the caller's are answered 404 and change no stored row.
Thm_C12 ==
    [][\A u \in Users, d \in DocIds, op \in {"index", "get", "delete", "ask"} :
          (Requested(op, u, d) /\ (u \notin users \/ ~Exists(d) \/ docs[d].owner_id # u))
          => /\ Refused(op, u, d)
             /\ last'.cause = "not_found"
             /\ last'.resp = Response(404, IF u \in users THEN <<"Document not found">>
                                                         ELSE <<"User not found">>)
             /\ UNCHANGED db]_vars

Witness_C12 ==
    /\ last.op \in {"index", "get", "delete", "ask"} /\ last.cause = "not_found"
    /\ last.user \in users /\ Exists(last.doc) /\ docs[last.doc].owner_id # last.user
    /\ last.resp = Response(404, <<"Document not found">>)

\* C13: no Page, Chunk or Conversation row refers to a document that is not
\* stored, and no Message row to a conversation that is not stored.
Thm_C13 ==
    /\ \A p \in pages : Exists(p.document_id)
    /\ \A c \in chunks : Exists(c.document_id)
    /\ \A c \in convs : Exists(c.document_id)
    /\ \A m \in msgs : \E c \in convs : c.id = m.conversation_id

Witness_C13 ==
    /\ last.op = "delete" /\ last.cause = "deleted" /\ ~Exists(last.doc)
    /\ nextPage > 1 /\ nextChunk > 1
    /\ pages = {} /\ chunks = {}

\* --------------------------------------------------- chunk_text on its own
\* Texts of up to MaxText characters: a letter, a sentence ender, a space.
TextChars == {"a", ".", " "}

Texts == UNION {[1..n -> TextChars] : n \in 0..MaxText}

\* A call of chunk_text that has not run yet.
ChunkTextCalls ==
    {[fn |-> "chunk_text", text |-> t, max_tokens |-> m, overlap_tokens |-> o,
      done |-> FALSE, result |-> <<>>] : t \in Texts, m \in 1..MaxTok, o \in 0..MaxTok}

ChunkTextInit == Fresh /\ call \in ChunkTextCalls

CallChunkText ==
    /\ call.fn = "chunk_text" /\ ~call.done
    /\ call' = [call EXCEPT !.done = TRUE,
                            !.result = chunk_text(call.text, call.max_tokens, call.overlap_tokens)]
    /\ UNCHANGED <<db, pc, loc, last, ops, fails>>

ChunkTextNext == CallChunkText

ChunkTextSpec == ChunkTextInit /\ [][ChunkTextNext]_vars

\* C14 (as stated): every chunk chunk_text emits is at most max_tokens*4
\* characters long, unless it is one sentence that is itself longer.
Cex_C14 ==
    (call.fn = "chunk_text" /\ call.done) =>
       LET max_chars == call.max_tokens * CharsPerToken
           sentences == split_sentences(call.text)
       IN \A i \in 1..Len(call.result) :
             \/ Len(call.result[i].text) <= max_chars
             \/ \E k \in 1..Len(sentences) :
                   Len(sentences[k]) > max_chars /\ strip(sentences[k]) = call.result[i].text

\* The sentences group[1], ..., joined by single spaces.
RECURSIVE JoinSentences(_)
JoinSentences(group) ==
    IF Len(group) = 0 THEN <<>>
    ELSE IF Len(group) = 1 THEN group[1]
    ELSE JoinSentences(SubSeq(group, 1, Len(group) - 1)) \o <<" ">> \o group[Len(group)]

\* The overlap region a buffer starts with when the buffer before it was
\* prev: the last overlap_chars characters of prev and a space, if prev is
\* longer than that.
OverlapRegion(prev, overlap_chars) ==
    IF overlap_chars > 0 /\ Len(prev) > overlap_chars
    THEN SubSeq(prev, Len(prev) - overlap_chars + 1, Len(prev)) \o <<" ">>
    ELSE <<>>

\* The chunk texts that come of cutting the sentences after the positions in
\* cuts: each group joined, behind its overlap region, trimmed; a last buffer
\* that is blank gives no chunk.  from is the first sentence of the group
\* being read, k the sentence read, prev the buffer before this one.
RECURSIVE Regroup(_, _, _, _, _, _)
Regroup(sentences, cuts, from, k, prev, overlap_chars) ==
    LET buffer == (IF from = 1 THEN <<>> ELSE OverlapRegion(prev, overlap_chars))
                     \o JoinSentences(SubSeq(sentences, from, k))
    IN IF k = Len(sentences)
       THEN IF strip(buffer) # <<>> THEN << strip(buffer) >> ELSE <<>>
       ELSE IF k \in cuts
       THEN << strip(buffer) >> \o Regroup(sentences, cuts, k + 1, k + 1, buffer, overlap_chars)
       ELSE Regroup(sentences, cuts, from, k + 1, prev, overlap_chars)

\* C15: for a text that is not blank, the emitted chunks, each without its
\* leading overlap region, are the sentences of the split, each once and in
\* order: the sentences can be cut into consecutive groups, one per chunk,
\* so that every chunk is its overlap region followed by its group.
Thm_C15 ==
    (call.fn = "chunk_text" /\ call.done /\ strip(call.text) # <<>>) =>
       LET sentences == split_sentences(call.text) IN
       \E cuts \in SUBSET (1..Len(sentences) - 1) :
          Regroup(sentences, cuts, 1, 1, <<>>, call.overlap_tokens * CharsPerToken)
             = [i \in 1..Len(call.result) |-> call.result[i].text]

\* Three sentences in two chunks, the second chunk starting with an overlap
\* region.
Witness_C15 ==
    /\ call.fn = "chunk_text" /\ call.done /\ call.overlap_tokens > 0
    /\ Len(call.result) = 2
    /\ Len(split_sentences(call.text)) = 3
    /\ Len(call.result[2].text) > Len(split_sentences(call.text)[3])

\* -------------------------------------------------- chunk_pages on its own
\* Page texts: empty, blank, one chunk, two chunks (the second with an overlap
\* region when overlap_tokens is 1), two chunks, three chunks (at max_tokens 1).
PageTexts ==
    { <<>>,
      <<" ">>,
      <<"a", ".">>,
      <<"a", "a", "a", "a", ".", " ", "a">>,
      <<"a", "a", ".", " ", "a", "a", ".">>,
      <<"a", "a", ".", " ", "a", "a", ".", " ", "a", "a", "a">> }

\* Pages as extract_text_from_pdf gives them, numbered from 1.
PageLists ==
    UNION {{[i \in 1..n |-> [page_number |-> i, text |-> f[i], character_count |-> Len(f[i])]] :
              f \in [1..n -> PageTexts]} : n \in 0..MaxPages}

ChunkPagesCalls ==
    {[fn |-> "chunk_pages", pages |-> p, max_tokens |-> m, overlap_tokens |-> o,
      done |-> FALSE, result |-> <<>>] : p \in PageLists, m \in 1..MaxTok, o \in 0..MaxTok}

ChunkPagesInit == Fresh /\ call \in ChunkPagesCalls

CallChunkPages ==
    /\ call.fn = "chunk_pages" /\ ~call.done
    /\ call' = [call EXCEPT !.done = TRUE,
                            !.result = chunk_pages(call.pages, call.max_tokens, call.overlap_tokens)]
    /\ UNCHANGED <<db, pc, loc, last, ops, fails>>

ChunkPagesNext == CallChunkPages

ChunkPagesSpec == ChunkPagesInit /\ [][ChunkPagesNext]_vars

\* The positions of result whose chunk is of page number n.
OfPage(result, n) == {i \in 1..Len(result) : result[i].page_number = n}

\* C16: the chunks of chunk_pages come page by page in page order, each
\* tagged with its page's number; within a page the chunk indices are
\* 0, 1, ..., k-1 in emission order and the chunks are those of chunk_text on
\* the page's text; no two chunks share (page_number, chunk_index).
Thm_C16 ==
    (call.fn = "chunk_pages" /\ call.done) =>
       LET result == call.result
           k(n) == Len(chunk_text(call.pages[n].text, call.max_tokens, call.overlap_tokens))
       IN /\ \A i \in 1..Len(result) : result[i].page_number \in 1..Len(call.pages)
          /\ \A i, j \in 1..Len(result) : i < j => result[i].page_number <= result[j].page_number
          /\ \A n \in 1..Len(call.pages) :
                /\ Cardinality(OfPage(result, n)) = k(n)
                /\ \A i \in OfPage(result, n) :
                      /\ result[i].chunk_index = Cardinality({j \in OfPage(result, n) : j < i})
                      /\ result[i].text =
                            chunk_text(call.pages[n].text, call.max_tokens,
                                       call.overlap_tokens)[result[i].chunk_index + 1].text
          /\ \A i, j \in 1..Len(result) :
                (/\ result[i].page_number = result[j].page_number
                 /\ result[i].chunk_index = result[j].chunk_index) => i = j

\* Two pages with more than one chunk each.
Witness_C16 ==
    /\ call.fn = "chunk_pages" /\ call.done /\ Len(call.pages) = 2
    /\ Cardinality(OfPage(call.result, 1)) >= 2
    /\ Cardinality(OfPage(call.result, 2)) >= 2

\* ----------------------------------------------- keyword_search on its own
\* Chunk texts: for the question "cat?" they score 10, 10 and 5, for the
\* question "emu" they all score 0.
SearchTexts ==
    { <<"c", "a", "t">>,
      <<"C", "a", "t", " ", "c", "a", "t">>,
      <<"c", "a", "t", " ", "d", "o", "g">> }

\* The stored chunks of one document: ids 1..n in index order.
StoredChunkSets ==
    UNION {{{[id |-> i, document_id |-> 1, page_number |-> 1, chunk_index |-> i - 1,
              text |-> f[i], token_count |-> estimate_tokens(f[i])] : i \in 1..n} :
              f \in [1..n -> SearchTexts]} : n \in 0..MaxRows}

\* times counts the calls made so far; rows and result are those of the
\* latest call, previous is the result of the call before it.
SearchCalls ==
    {[fn |-> "keyword_search", query |-> q, stored |-> st, top_k |-> k, times |-> 0,
      rows |-> <<>>, result |-> <<>>, previous |-> <<>>] :
        q \in Questions, st \in StoredChunkSets, k \in 1..MaxTopK}

SearchInit == Fresh /\ call \in SearchCalls

\* keyword_search, lines 24-47: the query of line 25 has no ORDER BY, so the
\* rows come in an order the store chooses at each call.
CallKeywordSearch ==
    /\ call.fn = "keyword_search" /\ call.times < 2
    /\ \E rows \in Enumerations(call.stored) :
          call' = [call EXCEPT !.times = @ + 1,
                               !.rows = rows,
                               !.result = keyword_search(call.query, rows, call.top_k),
                               !.previous = call.result]
    /\ UNCHANGED <<db, pc, loc, last, ops, fails>>

SearchNext == CallKeywordSearch

SearchSpec == SearchInit /\ [][SearchNext]_vars

ScoreOf(query, row) == calculate_score(extract_keywords(lower(query)), lower(row.text))

PosOf(rows, id) == CHOOSE p \in 1..Len(rows) : rows[p].id = id

ScoreSame(a, b) == a.num * b.den = b.num * a.den

ScoreBelow(a, b) == a.num * b.den < b.num * a.den

\* C17: keyword_search returns min(top_k, number of rows) scored chunks, each
\* a row with its score; scores never increase along the result, results of
\* equal score stand in the order the rows were enumerated in, and every row
\* left out ranks after every result in that same order.
Thm_C17 ==
    (call.fn = "keyword_search" /\ call.times > 0) =>
       LET R == call.result
           rows == call.rows
           pos(i) == PosOf(rows, R[i].chunk_id)
       IN /\ Len(R) <= call.top_k
          /\ Len(R) = Min(call.top_k, Len(rows))
          /\ \A i \in 1..Len(R) :
                \E p \in 1..Len(rows) :
                   /\ R[i].chunk_id = rows[p].id
                   /\ R[i].text = rows[p].text
                   /\ R[i].page_number = rows[p].page_number
                   /\ R[i].score = ScoreOf(call.query, rows[p])
          /\ \A i, j \in 1..Len(R) :
                i < j => /\ ~ScoreBelow(R[i].score, R[j].score)
                         /\ ScoreSame(R[i].score, R[j].score) => pos(i) < pos(j)
          /\ \A p \in 1..Len(rows) \ {pos(i) : i \in 1..Len(R)} :
                \A i \in 1..Len(R) :
                   /\ ~ScoreBelow(R[i].score, ScoreOf(call.query, rows[p]))
                   /\ ScoreSame(R[i].score, ScoreOf(call.query, rows[p])) => pos(i) < p

\* Three rows and top_k 2: the row enumerated first scores lowest and is left
\* out; the other two have the same positive score and were enumerated
\* against the order of their ids.
Witness_C17 ==
    /\ call.fn = "keyword_search" /\ call.times > 0
    /\ call.top_k = 2 /\ Len(call.rows) = 3 /\ Len(call.result) = 2
    /\ call.result[1].score.num > 0
    /\ ScoreSame(call.result[1].score, call.result[2].score)
    /\ call.result[1].text # call.result[2].text
    /\ call.result[1].chunk_id = call.rows[2].id
    /\ call.result[2].chunk_id = call.rows[3].id
    /\ call.rows[2].id > call.rows[3].id

\* C18: a second keyword_search with the same query, document and top_k on
\* the same stored chunks returns the same chunk ids in the same order.
Cex_C18 ==
    (call.fn = "keyword_search" /\ call.times = 2) =>
       /\ Len(call.result) = Len(call.previous)
       /\ \A i \in 1..Len(call.result) : call.result[i].chunk_id = call.previous[i].chunk_id

\* --------------------------------------- format_sources_for_llm on its own
RankedTexts == { <<"c", "a", "t">>, <<"d", "o", "g">>, <<"a", "\n", "b">> }

RankedPages == {1, 2, 12}

\* Ranked chunks as keyword_search returns them.
RankedLists ==
    UNION {{[i \in 1..n |-> [chunk_id |-> i, page_number |-> pg[i], text |-> tx[i],
                              score |-> [num |-> 0, den |-> 1],
                              token_count |-> estimate_tokens(tx[i])]] :
              pg \in [1..n -> RankedPages], tx \in [1..n -> RankedTexts]} : n \in 0..MaxRanked}

FormatCalls ==
    {[fn |-> "format_sources_for_llm", chunks |-> c, done |-> FALSE,
      result |-> [source_text |-> <<>>, source_to_page |-> <<>>]] : c \in RankedLists}

FormatInit == Fresh /\ call \in FormatCalls

CallFormatSources ==
    /\ call.fn = "format_sources_for_llm" /\ ~call.done
    /\ call' = [call EXCEPT !.done = TRUE, !.result = format_sources_for_llm(call.chunks)]
    /\ UNCHANGED <<db, pc, loc, last, ops, fails>>

FormatNext == CallFormatSources

FormatSpec == FormatInit /\ [][FormatNext]_vars

\* From position p on, s is exactly the blocks of ranked[i], ranked[i+1], ...:
\* "[S<i>] (Page <page>)", a newline, the chunk text and two newlines each.
RECURSIVE BlocksFrom(_, _, _, _)
BlocksFrom(s, p, i, ranked) ==
    IF i > Len(ranked) THEN p = Len(s) + 1
    ELSE LET block == <<"[", "S">> \o IntStr(i) \o <<"]", " ", "(", "P", "a", "g", "e", " ">>
                        \o IntStr(ranked[i].page_number) \o <<")", "\n">>
                        \o ranked[i].text \o <<"\n", "\n">>
         IN StartsWith(s, p, block) /\ BlocksFrom(s, p + Len(block), i + 1, ranked)

\* C19: for a ranked sequence of length n the keys of the label map are
\* exactly 1..n, the map sends i to the page number of the i-th ranked chunk,
\* and the source text is the blocks [S1], ..., [Sn] in that order.
Thm_C19 ==
    (call.fn = "format_sources_for_llm" /\ call.done) =>
       LET n == Len(call.chunks)
           labelToPage == call.result.source_to_page
       IN /\ DOMAIN labelToPage = 1..n
          /\ \A i \in 1..n : labelToPage[i] = call.chunks[i].page_number
          /\ BlocksFrom(call.result.source_text, 1, 1, call.chunks)

\* Two ranked chunks of different pages, the later page first.
Witness_C19 ==
    /\ call.fn = "format_sources_for_llm" /\ call.done
    /\ Len(call.chunks) = 2
    /\ call.chunks[1].page_number = 12 /\ call.chunks[2].page_number = 2
    /\ call.result.source_to_page[1] = 12 /\ call.result.source_to_page[2] = 2

\* --------------------------------------------- _parse_citations on its own
\* Pieces of an answer: labels of the sources 1, 2 and 7, the label of
\* source 1 written with a leading zero, and plain text.
AnswerPieces ==
    { <<"[", "S", "1", "]">>, <<"[", "S", "2", "]">>, <<"[", "S", "7", "]">>,
      <<"[", "S", "0", "1", "]">>, <<"x", " ">> }

RECURSIVE Concat(_)
Concat(ss) == IF ss = <<>> THEN <<>> ELSE Head(ss) \o Concat(Tail(ss))

CiteAnswers == UNION {{Concat(f) : f \in [1..n -> AnswerPieces]} : n \in 0..MaxPieces}

\* The sources of the answer: none, one chunk of page 3, or a chunk of page 5
\* followed by one of page 2.
CiteSources ==
    LET chunk(id, pg, tx) == [chunk_id |-> id, page_number |-> pg, text |-> tx,
                              score |-> [num |-> 0, den |-> 1], token_count |-> 0]
    IN { <<>>,
         << chunk(1, 3, <<"c", "a", "t">>) >>,
         << chunk(2, 5, <<"d", "o", "g">>), chunk(1, 2, <<"c", "a", "t">>) >> }

CiteCalls ==
    {[fn |-> "parse_citations", answer |-> a,
      source_text |-> format_sources_for_llm(c).source_text,
      source_to_page |-> format_sources_for_llm(c).source_to_page,
      done |-> FALSE, result |-> <<>>] : a \in CiteAnswers, c \in CiteSources}

CiteInit == Fresh /\ call \in CiteCalls

CallParseCitations ==
    /\ call.fn = "parse_citations" /\ ~call.done
    /\ call' = [call EXCEPT !.done = TRUE,
                            !.result = parse_citations(call.answer, call.source_text,
                                                       call.source_to_page)]
    /\ UNCHANGED <<db, pc, loc, last, ops, fails>>

CiteNext == CallParseCitations

CiteSpec == CiteInit /\ [][CiteNext]_vars

\* The i-th smallest element of a set of numbers.
Nth(S, i) == CHOOSE p \in S : Cardinality({q \in S : q < p}) = i - 1

\* C20: the citations are those of the labels of the answer whose number is
\* a key of labelToPage, one per label as written, in the order in which the
\* labels first occur; a label whose number is no key gives no citation; the
\* page of every citation is labelToPage of its label's number.
Thm_C20 ==
    (call.fn = "parse_citations" /\ call.done) =>
       LET labelToPage == call.source_to_page
           labels == LabelsFrom(call.answer, 1)
           firsts == {p \in 1..Len(labels) :
                        /\ StrInt(labels[p]) \in DOMAIN labelToPage
                        /\ \A q \in 1..p - 1 : labels[q] # labels[p]}
       IN /\ Len(call.result) = Cardinality(firsts)
          /\ \A i \in 1..Len(call.result) :
                LET number == StrInt(labels[Nth(firsts, i)]) IN
                /\ call.result[i].source_label = <<"S">> \o IntStr(number)
                /\ number \in DOMAIN labelToPage
                /\ call.result[i].page = labelToPage[number]

\* The answer "[S2][S7][S1]" over two sources: S2 and S1 are cited in that
\* order with their pages, S7 is dropped.
Witness_C20 ==
    /\ call.fn = "parse_citations" /\ call.done
    /\ call.answer = <<"[", "S", "2", "]", "[", "S", "7", "]", "[", "S", "1", "]">>
    /\ DOMAIN call.source_to_page = 1..2
    /\ Len(call.result) = 2
    /\ call.result[1].source_label = <<"S", "2">> /\ call.result[1].page = 2
    /\ call.result[2].source_label = <<"S", "1">> /\ call.result[2].page = 5

\* C21: the citation list holds at most one citation per source label: no
\* two citations have the same source_label, however often and in whatever
\* digit form the source number is written in the answer.
Cex_C21 ==
    (call.fn = "parse_citations" /\ call.done) =>
       \A i, j \in 1..Len(call.result) :
          call.result[i].source_label = call.result[j].source_label => i = j

\* -------------------------------------------- _extract_snippet on its own
\* Chunk texts of 1 character and of 199 .. 200 + MaxOver characters.
SnippetTexts ==
    {[i \in 1..n |-> "a"] : n \in {1} \cup (SnippetMax - 1..SnippetMax + MaxOver)}

\* The sources of an answer: one or two ranked chunks.
SnippetSources ==
    UNION {{[i \in 1..n |-> [chunk_id |-> i, page_number |-> i, text |-> tx[i],
                              score |-> [num |-> 0, den |-> 1],
                              token_count |-> estimate_tokens(tx[i])]] :
              tx \in [1..n -> SnippetTexts]} : n \in 1..2}

\* source_num 3 has no block in any of the source texts.
SnippetCalls ==
    {[fn |-> "extract_snippet", source_text |-> format_sources_for_llm(c).source_text,
      source_num |-> n, done |-> FALSE, result |-> <<>>] : c \in SnippetSources, n \in 1..3}

SnippetInit == Fresh /\ call \in SnippetCalls

\* _extract_snippet(source_text, source_num) as _parse_citations calls it, line
\* 104: max_length keeps its default of 200.
CallExtractSnippet ==
    /\ call.fn = "extract_snippet" /\ ~call.done
    /\ call' = [call EXCEPT !.done = TRUE,
                            !.result = extract_snippet(call.source_text, call.source_num,
                                                       SnippetMax)]
    /\ UNCHANGED <<db, pc, loc, last, ops, fails>>

SnippetNext == CallExtractSnippet

SnippetSpec == SnippetInit /\ [][SnippetNext]_vars

\* C22: the snippet of a citation has at most 200 characters, whatever the
\* length of the cited chunk.
Cex_C22 ==
    (call.fn = "extract_snippet" /\ call.done) => Len(call.result) <= SnippetMax

\* Slot o is working on an index request for document d.
Indexing(o, d) == pc[o] # "idle" /\ loc[o].op = "index" /\ loc[o].doc = d

\* C23: the status check takes no lock: the owner's index request on a
\* document that another request is indexing at that moment is accepted
\* whenever the stored status is not "indexed", so two requests can both have
\* passed the check before either has committed anything.
Thm_C23 ==
    [][\A u \in Users, d \in DocIds :
          (/\ Requested("index", u, d)
           /\ u \in users /\ Exists(d) /\ docs[d].owner_id = u /\ docs[d].status # "indexed"
           /\ \E o \in Slots : Indexing(o, d))
          => Accepted("index", u, d) /\ UNCHANGED db]_vars

\* Both slots have passed the status check of the same document and neither
\* has committed: the status is still "uploaded".
Witness_C23 ==
    \E d \in DocIds :
       /\ Exists(d) /\ docs[d].status = "uploaded"
       /\ \A o \in Slots : Indexing(o, d) /\ pc[o] = "idx_mark"

\* The steps of a handler in the order of its code: from each position, the
\* positions a request can be at next.
StepOrder ==
    [idle |-> {"idx_mark", "ask_conv", "ask_retrieve"},
     idx_mark |-> {"idx_extract", "idle"},
     idx_extract |-> {"idx_pages", "idx_except"},
     idx_pages |-> {"idx_chunks", "idx_except"},
     idx_chunks |-> {"idx_finish", "idx_except"},
     idx_finish |-> {"idle", "idx_except"},
     idx_except |-> {"idle"},
     ask_conv |-> {"ask_retrieve", "idle"},
     ask_retrieve |-> {"ask_generate", "idle"},
     ask_generate |-> {"ask_persist", "idle"},
     ask_persist |-> {"idle"}]

\* Slot r goes from position p to position q in this step.
Moves(r, p, q) == pc[r] = p /\ pc'[r] = q

\* The chunks of chunks_data are stored rows of document d.
Committed(d, chunks_data, st) ==
    \A i \in 1..Len(chunks_data) :
       \E c \in st : /\ c.document_id = d
                     /\ c.page_number = chunks_data[i].page_number
                     /\ c.chunk_index = chunks_data[i].chunk_index
                     /\ c.text = chunks_data[i].text

\* C24: a request goes through its steps in the order of the code: extract,
\* persist pages, chunk and persist chunks, flip the status; retrieve, format
\* and generate, persist messages.  Pages are added only by the page step,
\* with the pages the extraction gave; chunks only by the chunk step, which
\* chunks those pages; the status becomes "indexed" only in the last step of a
\* request whose chunks are stored; messages are added only by the persist
\* step, with the answer the generation returned.
Thm_C24 ==
    [][/\ \A r \in Slots : pc'[r] # pc[r] => pc'[r] \in StepOrder[pc[r]]
       /\ pages' \ pages # {} =>
             \E r \in Slots :
                /\ Moves(r, "idx_pages", "idx_chunks")
                /\ {[page_number |-> p.page_number, character_count |-> p.character_count] :
                       p \in pages' \ pages}
                     = {[page_number |-> loc[r].pages_data[i].page_number,
                         character_count |-> loc[r].pages_data[i].character_count] :
                           i \in 1..Len(loc[r].pages_data)}
       /\ chunks' \ chunks # {} =>
             \E r \in Slots :
                /\ Moves(r, "idx_chunks", "idx_finish")
                /\ loc'[r].chunks_data
                     = chunk_pages(loc[r].pages_data, IndexMaxTokens, IndexOverlapTokens)
                /\ Committed(loc[r].doc, loc'[r].chunks_data, chunks' \ chunks)
       /\ \A d \in DocIds :
             (docs'[d].status = "indexed" /\ docs[d].status # "indexed") =>
                \E r \in Slots :
                   /\ Moves(r, "idx_finish", "idle") /\ loc[r].doc = d
                   /\ Committed(d, loc[r].chunks_data, chunks')
       /\ msgs' \ msgs # {} =>
             \E r \in Slots :
                /\ Moves(r, "ask_persist", "idle")
                /\ loc[r].relevant_chunks # <<>>
                /\ \E m \in msgs' \ msgs : m.role = "assistant" /\ m.content = loc[r].answer]_vars

\* An index request has ended with the status flipped and chunks stored, and
\* an ask request on that document has ended with its messages stored.
Witness_C24 ==
    /\ last.op = "ask" /\ last.cause = "answered"
    /\ Exists(last.doc) /\ docs[last.doc].status = "indexed"
    /\ ChunksOf(last.doc) # {}
    /\ \E m \in msgs : m.role = "assistant"

\* C25: every chunk of chunk_text carries as token count the length of its
\* text divided by 4, rounded down.
Cex_C25 ==
    (call.fn = "chunk_text" /\ call.done) =>
       \A i \in 1..Len(call.result) :
          call.result[i].token_count = Len(call.result[i].text) \div CharsPerToken

\* C26: when an ask request stores its assistant message, every citation of
\* the message names, by chunk_id, the retrieved chunk at the position of the
\* citation's source label; the label is a position of the retrieved list,
\* and the chunk is a stored chunk of the asked document whose page number is
\* the citation's page.
Thm_C26 ==
    [][\A r \in Slots :
          (Ends(r, "answered") /\ loc[r].op = "ask") =>
             \E m \in msgs' \ msgs :
                /\ m.role = "assistant"
                /\ Len(m.citations_json) = Len(loc[r].citations)
                /\ \A i \in 1..Len(m.citations_json) :
                      LET cj == m.citations_json[i] IN
                      \E n \in 1..Len(loc[r].relevant_chunks) :
                         /\ loc[r].citations[i].source_label = <<"S">> \o IntStr(n)
                         /\ cj.chunk_id = loc[r].relevant_chunks[n].chunk_id
                         /\ cj.page = loc[r].citations[i].page
                         /\ \E c \in chunks' : /\ c.id = cj.chunk_id
                                                /\ c.document_id = loc[r].doc
                                                /\ c.page_number = cj.page]_vars

\* An assistant message stored with two citations: the first of the second
\* retrieved chunk (page 2), the second of the first retrieved chunk (page 1).
Witness_C26 ==
    /\ last.op = "ask" /\ last.cause = "answered"
    /\ \E m \in msgs :
          /\ m.role = "assistant" /\ Len(m.citations_json) = 2
          /\ m.citations_json[1].page = 2 /\ m.citations_json[2].page = 1
          /\ m.citations_json[1].chunk_id # m.citations_json[2].chunk_id

\* C27: once the status of a document is "indexed" no later step changes it:
\* "indexed" is never followed by "processing" or "failed".
Cex_C27 ==
    [][\A d \in DocIds :
          (Exists(d) /\ docs[d].status = "indexed" /\ docs'[d] # NoDoc)
          => docs'[d].status = "indexed"]_vars

\* --------------------------------------- a store with a failed document
\* The seeded store after a different history of document 2: two index
\* requests for it passed the status check together; the extraction of one
\* failed; the other committed the page and ended with "indexed"; then the
\* except branch of the first wrote "failed".  The page stays stored.
RetryDocs == [SeedDocs EXCEPT ![2].status = "failed"]

RetryInit ==
    /\ users = {"u1"}
    /\ docs = RetryDocs
    /\ nextDoc = 3
    /\ pages = SeedPages
    /\ nextPage = 4
    /\ chunks = SeedChunks
    /\ nextChunk = 3
    /\ convs = SeedConvs
    /\ nextConv = 2
    /\ msgs = SeedMsgs
    /\ nextMsg = 3
    /\ pc = [r \in Slots |-> "idle"]
    /\ loc = [r \in Slots |-> Idle]
    /\ last = NoLast
    /\ ops = SeedOps
    /\ fails = 0
    /\ call = NoCall

RetrySpec == RetryInit /\ [][Next]_vars

\* C28: the first request after the failed attempt is an index request for
\* the failed document; no outside failure happens and no other request
\* runs; when it ends the status is "indexed".
Cex_C28 ==
    [][\A r \in Slots :
          (/\ pc[r] # "idle" /\ pc'[r] = "idle"
           /\ loc[r].op = "index" /\ RetryDocs[loc[r].doc].status = "failed"
           /\ ops = SeedOps + 1 /\ fails' = 0)
          => docs'[loc[r].doc].status = "indexed"]_vars

\* C29: an accepted index request that has committed "processing" and has
\* ended, with no other request indexing the same document, does not leave
\* the document's status "processing": it is "indexed" or "failed", also
\* when the store failed.
Cex_C29 ==
    [][\A r \in Slots :
          (/\ pc[r] \notin {"idle", "idx_mark"} /\ pc'[r] = "idle" /\ loc[r].op = "index"
           /\ docs'[loc[r].doc] # NoDoc
           /\ \A o \in Slots \ {r} : ~Indexing(o, loc[r].doc))
          => docs'[loc[r].doc].status \in {"indexed", "failed"}]_vars

\* C30: an ask request that was accepted and then fails (nothing retrieved,
\* generation error, persistence error), with no other request running while
\* it does, leaves the stored conversations and messages as they were when
\* it was accepted, also when it carried no conversation id.
Cex_C30 ==
    [][\A r \in Slots :
          (/\ pc[r] \in {"ask_retrieve", "ask_generate", "ask_persist"} /\ pc'[r] = "idle"
           /\ last'.cause # "answered"
           /\ ops = SeedOps + 1)
          => convs' = SeedConvs /\ msgs' = SeedMsgs]_vars
====
